---- MODULE Spec2Model ----
(***************************************************************************)
(* Model of the sandboxed execution engine of pendo-mcp-code-exec:         *)
(* CodeExecutor (worker-thread tier) and SimpleSandbox (in-process tier).  *)
(*                                                                         *)
(* A text (a JavaScript string) is a sequence of non-empty tokens; the     *)
(* string is the concatenation of the tokens, "" is <<>>, and `a + b` is   *)
(* a \o b.  A JavaScript value is a record whose field t is its kind.      *)
(***************************************************************************)
EXTENDS Integers, Sequences, FiniteSets, TLC

\* ------------------------------------------------------------------ bounds
MaxLogs == 2
MaxCalls == 2

\* --------------------------------------------------------------- JS values
Undef == [t |-> "undefined"]
Null == [t |-> "null"]
Str(s) == [t |-> "string", s |-> s]
Num(n) == [t |-> "number", n |-> n]
Obj(k, n) == [t |-> "object", k |-> k, n |-> n]
ErrorObj(name, msg) == [t |-> "error", name |-> name, message |-> msg]

\* the values a fragment hands to console.log / console.warn / console.error
LogValues == {Str(<<"A">>), Obj("key", 7)}

\* the messages X of the Error(X) objects a fragment throws
Messages == {<<"boom">>, <<>>}

\* the values a fragment throws: Error objects, a string primitive, null
ThrownValues == {ErrorObj("Error", m) : m \in Messages} \cup {Str(<<"oops">>), Null}

\* the exit codes of process.exit(code) inside the worker
ExitCodes == {0, 1}

\* heap deltas memoryAfter - memoryBefore (a collection in between makes it negative)
MemDeltas == {-1, 1}

\* typeof v === 'object'
IsObjectType(v) == v.t \in {"object", "null", "error"}

\* JSON.stringify(v) for the values with typeof 'object'
JSONStringify(v) ==
  CASE v.t = "null" -> <<"null">>
    [] v.t = "object" -> <<"{", "\"", v.k, "\"", ":", ToString(v.n), "}">>
    [] v.t = "error" -> <<"{", "}">>

\* String(v)
StringOf(v) ==
  CASE v.t = "string" -> v.s
    [] v.t = "number" -> <<ToString(v.n)>>
    [] v.t = "undefined" -> <<"undefined">>
    [] v.t = "null" -> <<"null">>
    [] v.t = "object" -> <<"[object Object]">>
    [] v.t = "error" -> IF v.message = <<>> THEN <<v.name>> ELSE <<v.name, ": ">> \o v.message

\* typeof arg === 'object' ? JSON.stringify(arg) : String(arg)
RenderArg(v) == IF IsObjectType(v) THEN JSONStringify(v) ELSE StringOf(v)

\* the line each console channel pushes, wrapper (worker tier)
WrapperLine(chan, v) ==
  CASE chan = "log" -> RenderArg(v)
    [] chan = "error" -> <<"ERROR: ">> \o RenderArg(v)
    [] chan = "warn" -> <<"WARN: ">> \o RenderArg(v)

\* the line captureLog pushes, whatever the channel (in-process tier)
CaptureLine(chan, v) == RenderArg(v)

\* v.message: a property read that throws on null and undefined
CanReadProperty(v) == v.t \notin {"null", "undefined"}
MessageOf(v) == IF v.t = "error" THEN Str(v.message) ELSE Undef

\* v.stack
StackOf(v) == IF v.t = "error" THEN Str(StringOf(v) \o <<"\n    at ">>) ELSE Undef

\* v.name
NameOf(v) == IF v.t = "error" THEN Str(<<v.name>>) ELSE Undef

\* error.message + '\n' + error.stack
ErrorTextNameOnly(v) == Str(StringOf(NameOf(v)) \o <<"\n">>)
ErrorText(v) == Str(StringOf(MessageOf(v)) \o <<"\n">> \o StringOf(StackOf(v)))

\* the TypeError of reading .message of null
NullReadError == ErrorObj("TypeError", <<"Cannot read properties of null">>)

\* new Error(`Execution timeout after ${options.timeout}ms`)
TimeoutErrorNoValue(ms) == ErrorObj("Error", <<"Execution", " ", "timeout">>)
TimeoutError(ms) == ErrorObj("Error", <<"Execution", " ", "timeout", " ", "after", " ", ToString(ms), "ms">>)

\* new Error(`Worker stopped with exit code ${code}`)
ExitError(code) == ErrorObj("Error", <<"Worker stopped with exit code", " ", ToString(code)>>)

\* the rejection of writeFile
StagingError == ErrorObj("Error", <<"ENOSPC", ": ", "no space left on device">>)

\* the SyntaxError of a fragment that does not compile
SyntaxErrorObj == ErrorObj("SyntaxError", <<"Unexpected identifier">>)

\* text contains the text x as a substring (token-wise)
Contains(text, x) ==
  \E i \in 1..(Len(text) + 1) :
    /\ i + Len(x) - 1 <= Len(text)
    /\ SubSeq(text, i, i + Len(x) - 1) = x

\* ----------------------------------------------------------------- options
\* ExecutionOptions as passed by the caller: the timeout key absent, present
\* but undefined, or a number
NoKey == [t |-> "absent"]
OptionsArgs == {[timeout |-> NoKey], [timeout |-> Undef], [timeout |-> Num(200)]}

DefaultTimeout == 30000
DefaultMaxMemory == 512 * 1024 * 1024
DefaultAllowedPaths == {"./servers", "./skills", "./cache"}

\* { ...this.defaultOptions, ...options }: a key present in options wins,
\* also when its value is undefined
MergeOptions(options) ==
  [timeout |-> IF options.timeout = NoKey THEN Num(DefaultTimeout) ELSE options.timeout,
   maxMemory |-> Num(DefaultMaxMemory),
   allowedPaths |-> DefaultAllowedPaths]

\* if (options.timeout)
Truthy(v) ==
  CASE v.t = "undefined" -> FALSE
    [] v.t = "null" -> FALSE
    [] v.t = "number" -> v.n # 0
    [] v.t = "string" -> v.s # <<>>
    [] OTHER -> TRUE


\* ------------------------------------------------------------------- state
VARIABLES
  phase,     \* where execute() stands: Idle, Staging, Dispatched, Cleanup, Reported, Threw
  tier,      \* "worker" (CodeExecutor), "simple" (SimpleSandbox), "none"
  opts,      \* const opts = { ...this.defaultOptions, ...options }
  disk,      \* the temporary files present in tmpdir()
  tempFile,  \* const tempFile of the call, NoFile before it is chosen
  logs,      \* const logs: string[] of execute()
  worker,    \* the worker thread: none, running, hung, finished, exited, terminated
  wlogs,     \* const logs = [] of the wrapped program, inside the worker
  emitted,   \* history: the console calls the fragment made, in order
  ending,    \* history: how the fragment ended
  thrown,    \* history: the value the fragment threw
  queue,     \* the worker's events not yet delivered to the host's handlers
  timer,     \* timeoutHandle: unset, armed, cleared, fired
  settle,    \* the promise of executeInWorker
  result,    \* the ExecutionResult execute() returned
  handled,   \* history: the events the host's handlers have run for, in order
  calls,     \* the number of execute() calls made so far
  heapOver,  \* history: the fragment's heap use went beyond opts.maxMemory
  accessed   \* history: the file accesses of the fragment that succeeded

\* the same engine with several execute() calls in flight at once: every
\* variable is a function of the call
VARIABLES
  pphase,    \* where each execute() stands
  pfile,     \* const tempFile of each call
  plogs,     \* const logs: string[] of each call
  pdisk,     \* tmpdir(): the fragment each temporary file holds, NoCode if absent
  pworker,   \* the worker thread of each call
  pcode,     \* the fragment each worker loaded from its scriptPath
  pwlogs,    \* const logs = [] of the wrapped program in each worker
  pqueue,    \* the events of each worker not yet delivered to its handlers
  ptimer,    \* timeoutHandle of each call
  psettle,   \* the promise of executeInWorker of each call
  presult    \* the ExecutionResult each call returned

\* the MCP server's handler of execute_pendo_code, in front of the engine
VARIABLES
  hstate,    \* where handleExecuteCode stands: Idle, Awaiting, Responded, Threw
  hargs,     \* const { code, timeout } = args
  response   \* the response the handler returned

\* Date.now(), in ticks
VARIABLES
  now

\* RateLimiter (src/utils/rate-limiter.ts)
VARIABLES
  rlLimit,   \* this.limit, 0 before the constructor ran
  rlWindow,  \* this.window, 0 before the constructor ran
  requests,  \* this.requests: Map<string, number[]>
  granted,   \* history: per key, the timestamps of the calls that returned true since the key was last cleared
  erased,    \* history: per key, the timestamps clear() and clearAll() erased, while within the window
  rlLast,    \* history: the last call, its key and what it returned
  clears,    \* the number of clear() and clearAll() calls made so far
  retryAt    \* history: the key of the last denial, when its reset time ends, and whether no request of the key was allowed since

\* QueryCache (src/cache/query-cache.ts)
VARIABLES
  cfiles,    \* the cache directory: per key, the file `${hashKey(key)}.json` or NoEntry
  getter,    \* the get() call in flight and where it stands
  setter,    \* the set() call in flight and where it stands
  clearing,  \* the clearAll() call in flight: the files readdir listed and not yet unlinked
  lastSet,   \* history: per key, the value and time of the last completed set(), if nothing touched the key since
  everSet,   \* history: the keys set() was called for
  getRet     \* history: the last get() that returned, and what it returned

\* a method wrapped by the cached(ttl) decorator
VARIABLES
  wcall,     \* the call of the wrapped method in flight and where it stands
  wret       \* history: the last call that returned, and what it returned

\* PendoMCPClient (src/server/pendo-client.ts)
VARIABLES
  mcClient,    \* this.client / this.transport: the transport it was made for, NoTransport for null
  mcConnected, \* this.connected
  transports,  \* the transports (child processes) created so far: "open" or "closed"
  mcPc,        \* per caller, where its callTool()/listTools()/disconnect() stands
  mcOwn        \* per caller, the transport its connect() created

\* the sequential engine, and everything outside it
effects == <<heapOver, accessed>>
execVars == <<phase, tier, opts, disk, tempFile, logs, worker, wlogs, emitted, ending,
              thrown, queue, timer, settle, result, handled, calls, effects>>
parVars == <<pphase, pfile, plogs, pdisk, pworker, pcode, pwlogs, pqueue, ptimer,
             psettle, presult>>
srvVars == <<hstate, hargs, response>>
rlVars == <<rlLimit, rlWindow, requests, granted, erased, rlLast, clears, retryAt>>
qcVars == <<cfiles, getter, setter, clearing, lastSet, everSet, getRet>>
wrapVars == <<wcall, wret>>
mcVars == <<mcClient, mcConnected, transports, mcPc, mcOwn>>
outsideExec == <<parVars, srvVars, now, rlVars, qcVars, wrapVars, mcVars>>
outsidePar == <<execVars, srvVars, now, rlVars, qcVars, wrapVars, mcVars>>
outsideSrv == <<parVars, now, rlVars, qcVars, wrapVars, mcVars>>
outsideRl == <<execVars, parVars, srvVars, qcVars, wrapVars, mcVars>>
outsideCache == <<execVars, parVars, srvVars, rlVars, mcVars>>
outsideQc == <<outsideCache, wrapVars>>
outsideMc == <<execVars, parVars, srvVars, now, rlVars, qcVars, wrapVars>>

vars == <<execVars, parVars, srvVars, now, rlVars, qcVars, wrapVars, mcVars>>

NoFile == 0
FileNames == 1..MaxCalls
NoResult == [none |-> TRUE]
NoOpts == [timeout |-> Undef]
Channels == {"log", "warn", "error"}

Pending == [st |-> "pending"]
Resolved(m) == [st |-> "resolved", val |-> m]
Rejected(e) == [st |-> "rejected", reason |-> e]

\* resolve() and reject() of a promise that is already settled do nothing
ChangeSettle(cur, new) == new
Settle(cur, new) == IF cur.st = "pending" THEN new ELSE cur

MessageEvent(m) == [ev |-> "message", msg |-> m]
ErrorEvent(e) == [ev |-> "error", err |-> e]
ExitEvent(c) == [ev |-> "exit", code |-> c]

\* the report of the wrapped program after the fragment completed
SuccessReport(buffer, delta) ==
  [success |-> TRUE, output |-> Null, logs |-> buffer, memoryUsed |-> Num(delta), error |-> Undef]

\* the report of the wrapped program's catch block
FailureReport(buffer, e) ==
  [success |-> FALSE, output |-> Undef, logs |-> buffer, memoryUsed |-> Undef, error |-> ErrorText(e)]

\* result.memoryUsed || 0
OrZero(v) == IF Truthy(v) THEN v.n ELSE 0

\* execute(), lines 61-81: the ExecutionResult built from the worker's report
NormalizeReport(m, hostLogs) ==
  IF m.success
    THEN [success |-> TRUE, output |-> m.output, logs |-> m.logs, error |-> Undef,
          stats |-> [memoryUsed |-> OrZero(m.memoryUsed)]]
    ELSE [success |-> FALSE, output |-> Undef, logs |-> m.logs, error |-> m.error,
          stats |-> [memoryUsed |-> OrZero(m.memoryUsed)]]

\* execute(), lines 83-93: the ExecutionResult built in the catch block
CatchResultStack(e, hostLogs) ==
  [success |-> FALSE, output |-> Undef, logs |-> hostLogs, error |-> StackOf(e),
   stats |-> [memoryUsed |-> 0]]
CatchResult(e, hostLogs) ==
  [success |-> FALSE, output |-> Undef, logs |-> hostLogs, error |-> MessageOf(e),
   stats |-> [memoryUsed |-> 0]]

\* SimpleSandbox.execute(), lines 243-250 and 251-260
SimpleSuccess(hostLogs) ==
  [success |-> TRUE, output |-> Undef, logs |-> hostLogs, error |-> Undef,
   stats |-> [memoryUsed |-> 0]]
SimpleFailure(e, hostLogs) ==
  [success |-> FALSE, output |-> Undef, logs |-> hostLogs, error |-> ErrorText(e),
   stats |-> [memoryUsed |-> 0]]

ExecInit ==
  /\ phase = "Idle"
  /\ tier = "none"
  /\ opts = NoOpts
  /\ disk = {}
  /\ tempFile = NoFile
  /\ logs = <<>>
  /\ worker = "none"
  /\ wlogs = <<>>
  /\ emitted = <<>>
  /\ ending = "none"
  /\ thrown = Undef
  /\ queue = <<>>
  /\ timer = "unset"
  /\ settle = Pending
  /\ result = NoResult
  /\ handled = <<>>
  /\ calls = 0
  /\ heapOver = FALSE
  /\ accessed = {}

\* the previous call is over and its worker's events have been delivered
Quiescent ==
  /\ phase \in {"Idle", "Reported", "Threw"}
  /\ worker \in {"none", "exited", "terminated"}
  /\ queue = <<>>

\* the state every call starts from
FreshCall ==
  /\ logs' = <<>>
  /\ tempFile' = NoFile
  /\ worker' = "none"
  /\ wlogs' = <<>>
  /\ emitted' = <<>>
  /\ ending' = "none"
  /\ thrown' = Undef
  /\ queue' = <<>>
  /\ timer' = "unset"
  /\ settle' = Pending
  /\ result' = NoResult
  /\ handled' = <<>>
  /\ calls' = calls + 1
  /\ heapOver' = FALSE
  /\ accessed' = {}

\* CodeExecutor.execute(code, options) up to `await writeFile(...)`
ExecuteCall(options) ==
  /\ Quiescent
  /\ calls < MaxCalls
  /\ tier' = "worker"
  /\ opts' = MergeOptions(options)
  /\ phase' = "Staging"
  /\ FreshCall
  /\ UNCHANGED disk

\* execute() called directly
Execute(options) ==
  /\ ExecuteCall(options)
  /\ UNCHANGED outsideExec

\* writeFile succeeded; executeInWorker creates the worker, arms the timer
\* and registers the handlers
WriteFileOk(f) ==
  /\ phase = "Staging"
  /\ f \notin disk
  /\ disk' = disk \cup {f}
  /\ tempFile' = f
  /\ worker' = "running"
  /\ timer' = IF Truthy(opts.timeout) THEN "armed" ELSE "unset"
  /\ phase' = "Dispatched"
  /\ UNCHANGED <<tier, opts, logs, wlogs, emitted, ending, thrown, queue, settle,
                 result, handled, calls>>
  /\ UNCHANGED effects
  /\ UNCHANGED outsideExec

\* writeFile rejected: the catch block of execute() returns
WriteFileFail ==
  /\ phase = "Staging"
  /\ result' = CatchResult(StagingError, logs)
  /\ phase' = "Reported"
  /\ UNCHANGED <<tier, opts, disk, tempFile, logs, worker, wlogs, emitted, ending,
                 thrown, queue, timer, settle, handled, calls>>
  /\ UNCHANGED effects
  /\ UNCHANGED outsideExec


\* ------------------------------------------------- the fragment in the worker
hostVars == <<phase, tier, opts, disk, tempFile, logs, timer, settle, result, handled, calls>>

\* console.log / console.warn / console.error of the wrapped program
WorkerLog(chan, v) ==
  /\ worker = "running"
  /\ Len(emitted) < MaxLogs
  /\ wlogs' = Append(wlogs, WrapperLine(chan, v))
  /\ emitted' = Append(emitted, [chan |-> chan, val |-> v])
  /\ UNCHANGED <<hostVars, worker, ending, thrown, queue>>
  /\ UNCHANGED effects
  /\ UNCHANGED outsideExec

\* the fragment ran to its end: the wrapped program posts the success report
WorkerFinish(delta) ==
  /\ worker = "running"
  /\ worker' = "finished"
  /\ ending' = "finish"
  /\ queue' = Append(queue, MessageEvent(SuccessReport(wlogs, delta)))
  /\ UNCHANGED <<hostVars, wlogs, emitted, thrown>>
  /\ UNCHANGED effects
  /\ UNCHANGED outsideExec

\* the fragment executes `return`, or awaits a promise nothing will settle:
\* the async body of the wrapped program ends without posting a report
WorkerReturn ==
  /\ worker = "running"
  /\ worker' = "finished"
  /\ ending' = "return"
  /\ UNCHANGED <<hostVars, wlogs, emitted, thrown, queue>>
  /\ UNCHANGED effects
  /\ UNCHANGED outsideExec

\* the fragment throws v inside the try of the wrapped program: the catch block
\* posts the failure report, unless reading error.message throws in its turn,
\* which ends the worker with an uncaught TypeError
WorkerThrow(v) ==
  /\ worker = "running"
  /\ ending' = "throw"
  /\ thrown' = v
  /\ IF CanReadProperty(v)
       THEN /\ worker' = "finished"
            /\ queue' = Append(queue, MessageEvent(FailureReport(wlogs, v)))
       ELSE /\ worker' = "exited"
            /\ queue' = queue \o <<ErrorEvent(NullReadError), ExitEvent(1)>>
  /\ UNCHANGED <<hostVars, wlogs, emitted>>
  /\ UNCHANGED effects
  /\ UNCHANGED outsideExec

\* the fragment calls process.exit(code): the worker thread ends at once
WorkerProcessExit(code) ==
  /\ worker = "running"
  /\ worker' = "exited"
  /\ ending' = "exit"
  /\ queue' = Append(queue, ExitEvent(code))
  /\ UNCHANGED <<hostVars, wlogs, emitted, thrown>>
  /\ UNCHANGED effects
  /\ UNCHANGED outsideExec

\* the fragment never returns control (an endless loop, a timer that keeps
\* the worker alive)
WorkerHang ==
  /\ worker = "running"
  /\ worker' = "hung"
  /\ ending' = "hang"
  /\ UNCHANGED <<hostVars, wlogs, emitted, thrown, queue>>
  /\ UNCHANGED effects
  /\ UNCHANGED outsideExec

\* v is thrown outside the try of the wrapped program (in a callback the
\* fragment scheduled): an uncaught exception, 'error' event then exit code 1
WorkerCrash(v) ==
  /\ worker = "running"
  /\ worker' = "exited"
  /\ ending' = "crash"
  /\ thrown' = v
  /\ queue' = queue \o <<ErrorEvent(v), ExitEvent(1)>>
  /\ UNCHANGED <<hostVars, wlogs, emitted>>
  /\ UNCHANGED effects
  /\ UNCHANGED outsideExec

\* the wrapped program does not compile: the worker fails to start
WorkerLoadError ==
  /\ worker = "running"
  /\ emitted = <<>>
  /\ worker' = "exited"
  /\ ending' = "syntax"
  /\ thrown' = SyntaxErrorObj
  /\ queue' = queue \o <<ErrorEvent(SyntaxErrorObj), ExitEvent(1)>>
  /\ UNCHANGED <<hostVars, wlogs, emitted>>
  /\ UNCHANGED effects
  /\ UNCHANGED outsideExec

\* the async body is over and nothing keeps the worker's event loop alive
WorkerNaturalExit ==
  /\ worker = "finished"
  /\ worker' = "exited"
  /\ queue' = Append(queue, ExitEvent(0))
  /\ UNCHANGED <<hostVars, wlogs, emitted, ending, thrown>>
  /\ UNCHANGED effects
  /\ UNCHANGED outsideExec

\* the heap sizes a fragment reaches that the platform itself allows
HeapUses == {DefaultMaxMemory + 1}

\* the files a fragment opens: the directory and the kind of access
FileAccesses == {[root |-> "./servers", mode |-> "read"], [root |-> "/etc", mode |-> "read"]}

\* the fragment's heap use reaches n bytes: the worker was created by
\* new Worker(scriptPath), without resource limits, and goes on
WorkerAllocate(n) ==
  /\ worker = "running"
  /\ ~heapOver
  /\ n > opts.maxMemory.n
  /\ heapOver' = TRUE
  /\ UNCHANGED <<hostVars, worker, wlogs, emitted, ending, thrown, queue, accessed>>
  /\ UNCHANGED outsideExec

\* the fragment opens a file through `await import('fs')`: the worker has the
\* file system of the host process and the access succeeds
WorkerFileAccess(a) ==
  /\ worker = "running"
  /\ accessed = {}
  /\ accessed' = {a}
  /\ UNCHANGED <<hostVars, worker, wlogs, emitted, ending, thrown, queue, heapOver>>
  /\ UNCHANGED outsideExec

\* ------------------------------------------- executeInWorker: the handlers
\* worker.terminate(): stops a live worker, which then emits exit code 1
SkipTerminate(w) == w
Terminate(w) == IF w \in {"running", "hung", "finished"} THEN "terminated" ELSE w
TerminateQueue(w, q) ==
  IF w \in {"running", "hung", "finished"} THEN Append(q, ExitEvent(1)) ELSE q

\* clearTimeout(timeoutHandle)
KeepTimeout(tm) == tm
ClearTimeout(tm) == IF tm = "armed" THEN "cleared" ELSE tm

\* setTimeout callback, lines 180-183
OnTimeout ==
  /\ timer = "armed"
  /\ timer' = "fired"
  /\ worker' = Terminate(worker)
  /\ queue' = TerminateQueue(worker, queue)
  /\ settle' = Settle(settle, Rejected(TimeoutError(opts.timeout.n)))
  /\ handled' = Append(handled, "timeout")
  /\ UNCHANGED <<phase, tier, opts, disk, tempFile, logs, wlogs, emitted, ending,
                 thrown, result, calls>>
  /\ UNCHANGED effects
  /\ UNCHANGED outsideExec

\* worker.on('message'), lines 187-191
OnMessage ==
  /\ queue # <<>>
  /\ Head(queue).ev = "message"
  /\ timer' = ClearTimeout(timer)
  /\ worker' = Terminate(worker)
  /\ queue' = TerminateQueue(worker, Tail(queue))
  /\ settle' = Settle(settle, Resolved(Head(queue).msg))
  /\ handled' = Append(handled, "message")
  /\ UNCHANGED <<phase, tier, opts, disk, tempFile, logs, wlogs, emitted, ending,
                 thrown, result, calls>>
  /\ UNCHANGED effects
  /\ UNCHANGED outsideExec

\* worker.on('error'), lines 194-197
OnError ==
  /\ queue # <<>>
  /\ Head(queue).ev = "error"
  /\ timer' = ClearTimeout(timer)
  /\ queue' = Tail(queue)
  /\ settle' = Settle(settle, Rejected(Head(queue).err))
  /\ handled' = Append(handled, "error")
  /\ UNCHANGED <<phase, tier, opts, disk, tempFile, logs, worker, wlogs, emitted,
                 ending, thrown, result, calls>>
  /\ UNCHANGED effects
  /\ UNCHANGED outsideExec

\* worker.on('exit'), lines 200-205
OnExit ==
  /\ queue # <<>>
  /\ Head(queue).ev = "exit"
  /\ timer' = ClearTimeout(timer)
  /\ queue' = Tail(queue)
  /\ settle' = IF Head(queue).code # 0
                 THEN Settle(settle, Rejected(ExitError(Head(queue).code)))
                 ELSE settle
  /\ handled' = Append(handled, IF Head(queue).code # 0 THEN "exit" ELSE "exit0")
  /\ UNCHANGED <<phase, tier, opts, disk, tempFile, logs, worker, wlogs, emitted,
                 ending, thrown, result, calls>>
  /\ UNCHANGED effects
  /\ UNCHANGED outsideExec

\* ---------------------------------------- execute() after executeInWorker
\* the promise resolved: await unlink(tempFile)
UnlinkTemp ==
  /\ phase = "Dispatched"
  /\ tier = "worker"
  /\ settle.st = "resolved"
  /\ disk' = disk \ {tempFile}
  /\ phase' = "Cleanup"
  /\ UNCHANGED <<tier, opts, tempFile, logs, worker, wlogs, emitted, ending, thrown,
                 queue, timer, settle, result, handled, calls>>
  /\ UNCHANGED effects
  /\ UNCHANGED outsideExec

\* lines 59-81: the result is built from the report and returned
ReturnResult ==
  /\ phase = "Cleanup"
  /\ result' = NormalizeReport(settle.val, logs)
  /\ phase' = "Reported"
  /\ UNCHANGED <<tier, opts, disk, tempFile, logs, worker, wlogs, emitted, ending,
                 thrown, queue, timer, settle, handled, calls>>
  /\ UNCHANGED effects
  /\ UNCHANGED outsideExec

\* the promise rejected: the catch block, lines 83-93; reading error.message
\* of null throws out of execute()
CatchRejectedRetry ==
  /\ phase = "Dispatched"
  /\ tier = "worker"
  /\ settle.st = "rejected"
  /\ phase' = "Staging"
  /\ settle' = Pending
  /\ UNCHANGED <<tier, opts, disk, tempFile, logs, worker, wlogs, emitted, ending,
                 thrown, queue, timer, result, handled, calls>>
  /\ UNCHANGED effects
  /\ UNCHANGED outsideExec

CatchRejected ==
  /\ phase = "Dispatched"
  /\ tier = "worker"
  /\ settle.st = "rejected"
  /\ IF CanReadProperty(settle.reason)
       THEN /\ result' = CatchResult(settle.reason, logs)
            /\ phase' = "Reported"
       ELSE /\ result' = NoResult
            /\ phase' = "Threw"
  /\ UNCHANGED <<tier, opts, disk, tempFile, logs, worker, wlogs, emitted, ending,
                 thrown, queue, timer, settle, handled, calls>>
  /\ UNCHANGED effects
  /\ UNCHANGED outsideExec

\* ------------------------------------------------------------ SimpleSandbox
simpleFrame == <<tier, opts, disk, tempFile, worker, wlogs, queue, timer, settle, handled, calls>>

\* SimpleSandbox.execute(code) up to the construction of the AsyncFunction
SimpleExecute ==
  /\ Quiescent
  /\ calls < MaxCalls
  /\ tier' = "simple"
  /\ opts' = NoOpts
  /\ phase' = "Dispatched"
  /\ FreshCall
  /\ UNCHANGED disk
  /\ UNCHANGED outsideExec

\* new AsyncFunction(...) throws a SyntaxError: the catch block returns
SimpleSyntaxError ==
  /\ phase = "Dispatched"
  /\ tier = "simple"
  /\ emitted = <<>>
  /\ ending' = "syntax"
  /\ thrown' = SyntaxErrorObj
  /\ result' = SimpleFailure(SyntaxErrorObj, logs)
  /\ phase' = "Reported"
  /\ UNCHANGED <<simpleFrame, logs, emitted>>
  /\ UNCHANGED effects
  /\ UNCHANGED outsideExec

\* captureLog, whichever console method the fragment calls
SimpleLog(chan, v) ==
  /\ phase = "Dispatched"
  /\ tier = "simple"
  /\ Len(emitted) < MaxLogs
  /\ logs' = Append(logs, CaptureLine(chan, v))
  /\ emitted' = Append(emitted, [chan |-> chan, val |-> v])
  /\ UNCHANGED <<simpleFrame, phase, ending, thrown, result>>
  /\ UNCHANGED effects
  /\ UNCHANGED outsideExec

\* await fn(sandbox.console) fulfilled (the fragment ran to its end or returned)
SimpleFinish(how) ==
  /\ phase = "Dispatched"
  /\ tier = "simple"
  /\ ending' = how
  /\ result' = SimpleSuccess(logs)
  /\ phase' = "Reported"
  /\ UNCHANGED <<simpleFrame, logs, emitted, thrown>>
  /\ UNCHANGED effects
  /\ UNCHANGED outsideExec

\* await fn(sandbox.console) rejected with v: the catch block, where reading
\* error.message of null throws out of execute()
SimpleThrow(v) ==
  /\ phase = "Dispatched"
  /\ tier = "simple"
  /\ ending' = "throw"
  /\ thrown' = v
  /\ IF CanReadProperty(v)
       THEN /\ result' = SimpleFailure(v, logs)
            /\ phase' = "Reported"
       ELSE /\ result' = NoResult
            /\ phase' = "Threw"
  /\ UNCHANGED <<simpleFrame, logs, emitted>>
  /\ UNCHANGED effects
  /\ UNCHANGED outsideExec

\* ------------------------------------------ several calls in flight at once
MaxPar == 2

ParCalls == 1..MaxPar
ParFileNames == 1..MaxPar
NoCode == 0

\* the module the worker was given is not on disk when the thread loads it
LoadError == ErrorObj("Error", <<"Cannot find module">>)

\* join(tmpdir(), `pendo-exec-${randomBytes(8).toString('hex')}.mjs`): a name
\* that no file on disk and no call in flight has
FixedTempName(taken) == {1}
TempNames(taken) == ParFileNames \ taken

TakenNames == {f \in ParFileNames : pdisk[f] # NoCode} \cup {pfile[c] : c \in ParCalls}

ParInit ==
  /\ pphase = [c \in ParCalls |-> "Idle"]
  /\ pfile = [c \in ParCalls |-> NoFile]
  /\ plogs = [c \in ParCalls |-> <<>>]
  /\ pdisk = [f \in ParFileNames |-> NoCode]
  /\ pworker = [c \in ParCalls |-> "none"]
  /\ pcode = [c \in ParCalls |-> NoCode]
  /\ pwlogs = [c \in ParCalls |-> <<>>]
  /\ pqueue = [c \in ParCalls |-> <<>>]
  /\ ptimer = [c \in ParCalls |-> "unset"]
  /\ psettle = [c \in ParCalls |-> Pending]
  /\ presult = [c \in ParCalls |-> NoResult]

\* CodeExecutor.execute(code) of call c, default options, up to `await writeFile`
ParExecute(c) ==
  /\ pphase[c] = "Idle"
  /\ pphase' = [pphase EXCEPT ![c] = "Staging"]
  /\ UNCHANGED <<pfile, plogs, pdisk, pworker, pcode, pwlogs, pqueue, ptimer, psettle, presult>>
  /\ UNCHANGED outsidePar

\* writeFile of call c succeeded (it replaces a file of the same name);
\* executeInWorker creates the worker, arms the timer, registers the handlers
ParWriteFileOk(c, f) ==
  /\ pphase[c] = "Staging"
  /\ f \in TempNames(TakenNames)
  /\ pdisk' = [pdisk EXCEPT ![f] = c]
  /\ pfile' = [pfile EXCEPT ![c] = f]
  /\ pworker' = [pworker EXCEPT ![c] = "running"]
  /\ ptimer' = [ptimer EXCEPT ![c] =
                  IF Truthy(MergeOptions([timeout |-> NoKey]).timeout) THEN "armed" ELSE "unset"]
  /\ pphase' = [pphase EXCEPT ![c] = "Dispatched"]
  /\ UNCHANGED <<plogs, pcode, pwlogs, pqueue, psettle, presult>>
  /\ UNCHANGED outsidePar

\* the worker thread of call c loads the module at its scriptPath
ParWorkerLoad(c) ==
  /\ pworker[c] = "running"
  /\ pcode[c] = NoCode
  /\ IF pdisk[pfile[c]] = NoCode
       THEN /\ pworker' = [pworker EXCEPT ![c] = "exited"]
            /\ pqueue' = [pqueue EXCEPT ![c] = @ \o <<ErrorEvent(LoadError), ExitEvent(1)>>]
            /\ UNCHANGED pcode
       ELSE /\ pcode' = [pcode EXCEPT ![c] = pdisk[pfile[c]]]
            /\ UNCHANGED <<pworker, pqueue>>
  /\ UNCHANGED <<pphase, pfile, plogs, pdisk, pwlogs, ptimer, psettle, presult>>
  /\ UNCHANGED outsidePar

\* console.log('A') of the fragment the worker of call c runs (every call
\* is given the same code: one console.log, then the end or a failure)
ParWorkerLog(c) ==
  /\ pworker[c] = "running"
  /\ pcode[c] # NoCode
  /\ pwlogs[c] = <<>>
  /\ pwlogs' = [pwlogs EXCEPT ![c] =
                  Append(@, [by |-> pcode[c], line |-> WrapperLine("log", Str(<<"A">>))])]
  /\ UNCHANGED <<pphase, pfile, plogs, pdisk, pworker, pcode, pqueue, ptimer, psettle, presult>>
  /\ UNCHANGED outsidePar

\* the fragment ran to its end: the success report is posted
ParWorkerFinish(c) ==
  /\ pworker[c] = "running"
  /\ pcode[c] # NoCode
  /\ pworker' = [pworker EXCEPT ![c] = "finished"]
  /\ pqueue' = [pqueue EXCEPT ![c] = Append(@, MessageEvent(SuccessReport(pwlogs[c], 1)))]
  /\ UNCHANGED <<pphase, pfile, plogs, pdisk, pcode, pwlogs, ptimer, psettle, presult>>
  /\ UNCHANGED outsidePar

\* a callback the fragment scheduled throws Error('boom'): 'error' event,
\* then exit code 1
ParWorkerCrash(c) ==
  /\ pworker[c] = "running"
  /\ pcode[c] # NoCode
  /\ pworker' = [pworker EXCEPT ![c] = "exited"]
  /\ pqueue' = [pqueue EXCEPT ![c] =
                  @ \o <<ErrorEvent(ErrorObj("Error", <<"boom">>)), ExitEvent(1)>>]
  /\ UNCHANGED <<pphase, pfile, plogs, pdisk, pcode, pwlogs, ptimer, psettle, presult>>
  /\ UNCHANGED outsidePar

\* setTimeout callback of call c, lines 180-183
ParOnTimeout(c) ==
  /\ ptimer[c] = "armed"
  /\ ptimer' = [ptimer EXCEPT ![c] = "fired"]
  /\ pworker' = [pworker EXCEPT ![c] = Terminate(@)]
  /\ pqueue' = [pqueue EXCEPT ![c] = TerminateQueue(pworker[c], @)]
  /\ psettle' = [psettle EXCEPT ![c] = Settle(@, Rejected(TimeoutError(DefaultTimeout)))]
  /\ UNCHANGED <<pphase, pfile, plogs, pdisk, pcode, pwlogs, presult>>
  /\ UNCHANGED outsidePar

\* worker.on('message') of call c, lines 187-191
ParOnMessage(c) ==
  /\ pqueue[c] # <<>>
  /\ Head(pqueue[c]).ev = "message"
  /\ ptimer' = [ptimer EXCEPT ![c] = ClearTimeout(@)]
  /\ pworker' = [pworker EXCEPT ![c] = Terminate(@)]
  /\ pqueue' = [pqueue EXCEPT ![c] = TerminateQueue(pworker[c], Tail(@))]
  /\ psettle' = [psettle EXCEPT ![c] = Settle(@, Resolved(Head(pqueue[c]).msg))]
  /\ UNCHANGED <<pphase, pfile, plogs, pdisk, pcode, pwlogs, presult>>
  /\ UNCHANGED outsidePar

\* worker.on('error') of call c, lines 194-197
ParOnError(c) ==
  /\ pqueue[c] # <<>>
  /\ Head(pqueue[c]).ev = "error"
  /\ ptimer' = [ptimer EXCEPT ![c] = ClearTimeout(@)]
  /\ pqueue' = [pqueue EXCEPT ![c] = Tail(@)]
  /\ psettle' = [psettle EXCEPT ![c] = Settle(@, Rejected(Head(pqueue[c]).err))]
  /\ UNCHANGED <<pphase, pfile, plogs, pdisk, pworker, pcode, pwlogs, presult>>
  /\ UNCHANGED outsidePar

\* worker.on('exit') of call c, lines 200-205
ParOnExit(c) ==
  /\ pqueue[c] # <<>>
  /\ Head(pqueue[c]).ev = "exit"
  /\ ptimer' = [ptimer EXCEPT ![c] = ClearTimeout(@)]
  /\ pqueue' = [pqueue EXCEPT ![c] = Tail(@)]
  /\ psettle' = [psettle EXCEPT ![c] =
                   IF Head(pqueue[c]).code # 0
                     THEN Settle(@, Rejected(ExitError(Head(pqueue[c]).code)))
                     ELSE @]
  /\ UNCHANGED <<pphase, pfile, plogs, pdisk, pworker, pcode, pwlogs, presult>>
  /\ UNCHANGED outsidePar

\* the promise of call c resolved: await unlink(tempFile)
ParUnlinkTemp(c) ==
  /\ pphase[c] = "Dispatched"
  /\ psettle[c].st = "resolved"
  /\ pdisk' = [pdisk EXCEPT ![pfile[c]] = NoCode]
  /\ pphase' = [pphase EXCEPT ![c] = "Cleanup"]
  /\ UNCHANGED <<pfile, plogs, pworker, pcode, pwlogs, pqueue, ptimer, psettle, presult>>
  /\ UNCHANGED outsidePar

\* lines 59-81 of call c
ParReturnResult(c) ==
  /\ pphase[c] = "Cleanup"
  /\ presult' = [presult EXCEPT ![c] = NormalizeReport(psettle[c].val, plogs[c])]
  /\ pphase' = [pphase EXCEPT ![c] = "Reported"]
  /\ UNCHANGED <<pfile, plogs, pdisk, pworker, pcode, pwlogs, pqueue, ptimer, psettle>>
  /\ UNCHANGED outsidePar

\* the promise of call c rejected: the catch block, lines 83-93
ParCatchRejected(c) ==
  /\ pphase[c] = "Dispatched"
  /\ psettle[c].st = "rejected"
  /\ IF CanReadProperty(psettle[c].reason)
       THEN /\ presult' = [presult EXCEPT ![c] = CatchResult(psettle[c].reason, plogs[c])]
            /\ pphase' = [pphase EXCEPT ![c] = "Reported"]
       ELSE /\ pphase' = [pphase EXCEPT ![c] = "Threw"]
            /\ UNCHANGED presult
  /\ UNCHANGED <<pfile, plogs, pdisk, pworker, pcode, pwlogs, pqueue, ptimer, psettle>>
  /\ UNCHANGED outsidePar

ParNext ==
  \/ \E c \in ParCalls : ParExecute(c)
  \/ \E c \in ParCalls, f \in ParFileNames : ParWriteFileOk(c, f)
  \/ \E c \in ParCalls : ParWorkerLoad(c)
  \/ \E c \in ParCalls : ParWorkerLog(c)
  \/ \E c \in ParCalls : ParWorkerFinish(c)
  \/ \E c \in ParCalls : ParWorkerCrash(c)
  \/ \E c \in ParCalls : ParOnTimeout(c)
  \/ \E c \in ParCalls : ParOnMessage(c)
  \/ \E c \in ParCalls : ParOnError(c)
  \/ \E c \in ParCalls : ParOnExit(c)
  \/ \E c \in ParCalls : ParUnlinkTemp(c)
  \/ \E c \in ParCalls : ParReturnResult(c)
  \/ \E c \in ParCalls : ParCatchRejected(c)

\* ------------------------------------------- the execute_pendo_code handler
ServerDefaultTimeout == 30000

NoArgs == [none |-> TRUE]
NoResponse == [none |-> TRUE]

\* the arguments of a request: code absent, empty or a fragment; timeout
\* absent or given
RequestArgs ==
  [code : {Undef, Str(<<>>), Str(<<"fragment">>)}, timeout : {Undef, Num(200)}]

\* timeout || 30000
TimeoutOrDefault(timeout) == IF Truthy(timeout) THEN timeout ELSE Num(ServerDefaultTimeout)

\* lines 245-254
NoCodeResponse == [isError |-> TRUE, text |-> [plain |-> <<"Error: No code provided">>]]

\* lines 261-276: JSON.stringify({success: true, logs, stats}, null, 2), the
\* text of an object with these three keys
SuccessResponse(r) ==
  [isError |-> FALSE,
   text |-> [json |-> [success |-> TRUE, logs |-> r.logs, stats |-> r.stats]]]

\* lines 277-287: the template with result.error, the logs and the stats
FailureResponse(r) ==
  [isError |-> TRUE,
   text |-> [failed |-> StringOf(r.error), logs |-> r.logs, stats |-> r.stats]]

SrvInit ==
  /\ hstate = "Idle"
  /\ hargs = NoArgs
  /\ response = NoResponse

\* handleExecuteCode(args) up to the await of this.executor.execute
HandleExecuteCode(args) ==
  /\ hstate \in {"Idle", "Responded", "Threw"}
  /\ hargs' = args
  /\ IF ~Truthy(args.code)
       THEN /\ response' = NoCodeResponse
            /\ hstate' = "Responded"
            /\ UNCHANGED execVars
       ELSE /\ ExecuteCall([timeout |-> TimeoutOrDefault(args.timeout)])
            /\ response' = NoResponse
            /\ hstate' = "Awaiting"
  /\ UNCHANGED outsideSrv

\* the awaited execute() returned a result
HandleResult ==
  /\ hstate = "Awaiting"
  /\ phase = "Reported"
  /\ response' = IF result.success THEN SuccessResponse(result) ELSE FailureResponse(result)
  /\ hstate' = "Responded"
  /\ UNCHANGED <<hargs, execVars>>
  /\ UNCHANGED outsideSrv

\* the awaited execute() rejected: the handler has no try block
HandleRejection ==
  /\ hstate = "Awaiting"
  /\ phase = "Threw"
  /\ hstate' = "Threw"
  /\ UNCHANGED <<hargs, response, execVars>>
  /\ UNCHANGED outsideSrv

\* the steps of the engine's worker tier under the handler
EngineStep ==
  \/ \E f \in FileNames : WriteFileOk(f)
  \/ WriteFileFail
  \/ \E c \in Channels, v \in LogValues : WorkerLog(c, v)
  \/ \E d \in MemDeltas : WorkerFinish(d)
  \/ WorkerReturn
  \/ \E v \in ThrownValues : WorkerThrow(v)
  \/ \E c \in ExitCodes : WorkerProcessExit(c)
  \/ WorkerHang
  \/ \E v \in ThrownValues : WorkerCrash(v)
  \/ WorkerLoadError
  \/ WorkerNaturalExit
  \/ OnTimeout
  \/ OnMessage
  \/ OnError
  \/ OnExit
  \/ UnlinkTemp
  \/ ReturnResult
  \/ CatchRejected

SrvNext ==
  \/ \E a \in RequestArgs : HandleExecuteCode(a)
  \/ HandleResult
  \/ HandleRejection
  \/ EngineStep

\* ------------------------------------------------------------------ clock
MaxTime == 2

ClockInit == now = 0

\* time passes
Tick ==
  /\ now < MaxTime
  /\ now' = now + 1

\* ----------------------------------------------------------- RateLimiter
MaxLimit == 1
MaxWindow == 2
MaxClears == 1

Keys == {"k1", "k2"}
NoCallYet == [op |-> "none"]
NoRetry == [none |-> TRUE]

\* this.requests.get(key) || []
TimestampsOf(key) == IF key \in DOMAIN requests THEN requests[key] ELSE <<>>

\* now - ts < this.window
InWindowInclusive(ts) == now - ts <= rlWindow
InWindow(ts) == now - ts < rlWindow

\* timestamps.filter((ts) => now - ts < this.window)
ValidTimestamps(key) == SelectSeq(TimestampsOf(key), InWindow)

\* validTimestamps.length >= this.limit
LimitExceeded(valid) == Len(valid) > rlLimit
LimitReached(valid) == Len(valid) >= rlLimit

\* Math.min(...validTimestamps)
RECURSIVE MinOf(_)
MinOf(seq) ==
  IF Len(seq) = 1 THEN seq[1]
  ELSE LET m == MinOf(Tail(seq)) IN IF seq[1] < m THEN seq[1] ELSE m

\* Math.max(0, x)
MaxZero(x) == IF x > 0 THEN x ELSE 0

\* the timestamps of hist less than windowMs before t
StillRecent(hist, t) == SelectSeq(hist, LAMBDA ts : t - ts < rlWindow)

\* the value getRemaining(key) returns
RemainingUnfiltered(key) == MaxZero(rlLimit - Len(TimestampsOf(key)))
Remaining(key) == MaxZero(rlLimit - Len(ValidTimestamps(key)))

\* the value getResetTime(key) returns
ResetTimeNoWindow(key) ==
  LET valid == ValidTimestamps(key)
  IN IF Len(valid) = 0 THEN 0 ELSE MaxZero(MinOf(valid) - now)
ResetTime(key) ==
  LET valid == ValidTimestamps(key)
  IN IF Len(valid) = 0 THEN 0 ELSE MaxZero(MinOf(valid) + rlWindow - now)

RlInit ==
  /\ rlLimit = 0
  /\ rlWindow = 0
  /\ requests = <<>>
  /\ granted = [k \in Keys |-> <<>>]
  /\ erased = [k \in Keys |-> <<>>]
  /\ rlLast = NoCallYet
  /\ clears = 0
  /\ retryAt = NoRetry

Constructed == rlLimit > 0

\* new RateLimiter(limit, windowMs)
NewRateLimiter(limit, windowMs) ==
  /\ ~Constructed
  /\ rlLimit' = limit
  /\ rlWindow' = windowMs
  /\ UNCHANGED <<requests, granted, erased, rlLast, clears, retryAt, now>>
  /\ UNCHANGED outsideRl

\* checkLimit(key): the body has no await and runs in one piece
CheckLimit(key) ==
  /\ Constructed
  /\ LET valid == ValidTimestamps(key)
     IN IF LimitReached(valid)
          THEN /\ rlLast' = [op |-> "checkLimit", key |-> key, ret |-> FALSE]
               /\ retryAt' = [key |-> key, at |-> now + ResetTime(key), first |-> TRUE]
               /\ UNCHANGED <<requests, granted, erased>>
          ELSE /\ requests' = [k \in DOMAIN requests \cup {key} |->
                                 IF k = key THEN Append(valid, now) ELSE requests[k]]
               /\ granted' = [granted EXCEPT ![key] = Append(@, now)]
               /\ retryAt' = IF retryAt # NoRetry /\ retryAt.key = key
                                THEN [retryAt EXCEPT !.first = FALSE] ELSE retryAt
               /\ UNCHANGED erased
               /\ rlLast' = [op |-> "checkLimit", key |-> key, ret |-> TRUE]
  /\ UNCHANGED <<rlLimit, rlWindow, clears, now>>
  /\ UNCHANGED outsideRl

\* getRemaining(key)
GetRemainingRecording(key) ==
  /\ Constructed
  /\ rlLast' = [op |-> "getRemaining", key |-> key, ret |-> Remaining(key)]
  /\ requests' = [k \in DOMAIN requests \cup {key} |->
                    IF k = key THEN Append(ValidTimestamps(key), now) ELSE requests[k]]
  /\ UNCHANGED <<rlLimit, rlWindow, granted, erased, clears, retryAt, now>>
  /\ UNCHANGED outsideRl
GetRemaining(key) ==
  /\ Constructed
  /\ rlLast' = [op |-> "getRemaining", key |-> key, ret |-> Remaining(key)]
  /\ UNCHANGED <<rlLimit, rlWindow, requests, granted, erased, clears, retryAt, now>>
  /\ UNCHANGED outsideRl

\* getResetTime(key)
GetResetTime(key) ==
  /\ Constructed
  /\ rlLast' = [op |-> "getResetTime", key |-> key, ret |-> ResetTime(key)]
  /\ UNCHANGED <<rlLimit, rlWindow, requests, granted, erased, clears, retryAt, now>>
  /\ UNCHANGED outsideRl

\* clear(key): this.requests.delete(key)
ClearEveryKey(key) ==
  /\ Constructed
  /\ clears < MaxClears
  /\ key \in DOMAIN requests
  /\ clears' = clears + 1
  /\ requests' = <<>>
  /\ granted' = [k \in Keys |-> <<>>]
  /\ erased' = [k \in Keys |-> StillRecent(erased[k] \o granted[k], now)]
  /\ rlLast' = [op |-> "clear", key |-> key]
  /\ UNCHANGED <<rlLimit, rlWindow, retryAt, now>>
  /\ UNCHANGED outsideRl
Clear(key) ==
  /\ Constructed
  /\ clears < MaxClears
  /\ key \in DOMAIN requests
  /\ clears' = clears + 1
  /\ requests' = [k \in DOMAIN requests \ {key} |-> requests[k]]
  /\ granted' = [granted EXCEPT ![key] = <<>>]
  /\ erased' = [erased EXCEPT ![key] = StillRecent(@ \o granted[key], now)]
  /\ rlLast' = [op |-> "clear", key |-> key]
  /\ UNCHANGED <<rlLimit, rlWindow, retryAt, now>>
  /\ UNCHANGED outsideRl

\* clearAll(): this.requests.clear()
ClearAll ==
  /\ Constructed
  /\ clears < MaxClears
  /\ DOMAIN requests # {}
  /\ clears' = clears + 1
  /\ requests' = <<>>
  /\ granted' = [k \in Keys |-> <<>>]
  /\ erased' = [k \in Keys |-> StillRecent(erased[k] \o granted[k], now)]
  /\ rlLast' = [op |-> "clearAll"]
  /\ UNCHANGED <<rlLimit, rlWindow, retryAt, now>>
  /\ UNCHANGED outsideRl

\* the clock of the rate limiter's process
RlTick ==
  /\ Tick
  /\ erased' = [k \in Keys |-> StillRecent(erased[k], now')]
  /\ retryAt' = IF retryAt # NoRetry /\ (retryAt.at < now' \/ ~retryAt.first) THEN NoRetry ELSE retryAt
  /\ UNCHANGED <<rlLimit, rlWindow, requests, granted, rlLast, clears>>
  /\ UNCHANGED outsideRl

RlNext ==
  \/ \E l \in 1..MaxLimit, w \in {MaxWindow} : NewRateLimiter(l, w)
  \/ \E k \in Keys : CheckLimit(k)
  \/ \E k \in Keys : GetRemaining(k)
  \/ \E k \in Keys : GetResetTime(k)
  \/ \E k \in Keys : Clear(k)
  \/ ClearAll
  \/ RlTick

\* ------------------------------------------------------------- QueryCache
MaxTtl == 1

CacheKeys == {"q1", "q2"}

\* the values handed to set(): null, an object, undefined
CacheValues == {Null, Obj("key", 7), Undef}

EmptyObject == [t |-> "object", k |-> "", n |-> 0]

\* JSON.stringify(value): undefined for undefined, else a text
HasJSONText(v) == v.t # "undefined"
JSONTextOf(v) ==
  CASE v.t = "number" -> <<ToString(v.n)>>
    [] v.t = "string" -> <<"\"">> \o v.s \o <<"\"">>
    [] OTHER -> JSONStringify(v)

\* JSON.parse(content): a SyntaxError for the empty text
CanParse(text) == text # <<>>
JSONParse(text) ==
  CASE text = <<"null">> -> Null
    [] text = <<"{", "}">> -> EmptyObject
    [] text[1] = "{" -> Obj(text[3], CHOOSE n \in 0..9 : ToString(n) = text[6])
    [] text[1] = "\"" -> Str(SubSeq(text, 2, Len(text) - 1))
    [] OTHER -> Num(CHOOSE n \in 0..9 : ToString(n) = text[1])

\* JSON.parse(JSON.stringify(v))
RoundTrip(v) == JSONParse(JSONTextOf(v))

NoEntry == [none |-> TRUE]
IdleCall == [pc |-> "idle"]
NoSet == [none |-> TRUE]
NoGetYet == [none |-> TRUE]
AnyValue == {[any |-> TRUE]}

\* age > this.ttl
ExpiredInclusive(mtime) == now - mtime >= MaxTtl
Expired(mtime) == now - mtime > MaxTtl

QcInit ==
  /\ cfiles = [k \in CacheKeys |-> NoEntry]
  /\ getter = IdleCall
  /\ setter = IdleCall
  /\ clearing = {}
  /\ lastSet = [k \in CacheKeys |-> NoSet]
  /\ everSet = {}
  /\ getRet = NoGetYet

\* what the contract promises a get(key) that starts now
Promised(key) ==
  IF lastSet[key] = NoSet \/ now - lastSet[key].at > MaxTtl \/ key \in clearing
    THEN AnyValue
    ELSE IF setter.pc # "idle" /\ setter.key = key
      THEN AnyValue
      ELSE {RoundTrip(lastSet[key].val)}

\* get(key) up to the await of fs.stat
GetCall(key) ==
  /\ getter.pc = "idle"
  /\ getter' = [pc |-> "stat", key |-> key, allowed |-> Promised(key), overlap |-> FALSE]
  /\ UNCHANGED <<cfiles, setter, clearing, lastSet, everSet, getRet, now>>

\* get(key) called directly
GetStart(key) ==
  /\ GetCall(key)
  /\ UNCHANGED outsideQc

\* the get() call returns val
GetReturns(val) ==
  /\ getter' = IdleCall
  /\ getRet' = [val |-> val, overlap |-> getter.overlap, set |-> getter.key \in everSet,
                sure |-> getter.allowed # AnyValue,
                asPromised |-> getter.allowed = AnyValue \/ val \in getter.allowed]

\* fs.stat(cachePath) and the expiry check
GetStat ==
  /\ getter.pc = "stat"
  /\ IF cfiles[getter.key] = NoEntry
       THEN GetReturns(Null)
       ELSE /\ getter' = [getter EXCEPT !.pc = IF Expired(cfiles[getter.key].mtime)
                                                THEN "unlink" ELSE "read"]
            /\ UNCHANGED getRet
  /\ UNCHANGED <<cfiles, setter, clearing, lastSet, everSet, now>>
  /\ UNCHANGED outsideQc

\* fs.unlink(cachePath) of the expired entry; return null
GetUnlink ==
  /\ getter.pc = "unlink"
  /\ cfiles' = [cfiles EXCEPT ![getter.key] = NoEntry]
  /\ GetReturns(Null)
  /\ UNCHANGED <<setter, clearing, lastSet, everSet, now>>
  /\ UNCHANGED outsideQc

\* fs.readFile(cachePath) and JSON.parse(content); the catch returns null
GetRead ==
  /\ getter.pc = "read"
  /\ IF cfiles[getter.key] = NoEntry \/ ~CanParse(cfiles[getter.key].content)
       THEN GetReturns(Null)
       ELSE GetReturns(JSONParse(cfiles[getter.key].content))
  /\ UNCHANGED <<cfiles, setter, clearing, lastSet, everSet, now>>
  /\ UNCHANGED outsideQc

\* a get(key) in flight meets a set(key, v) on an entry that holds an
\* unexpired value: the contract allows the old and the new value
MeetsSet(key, v) ==
  IF getter.pc # "idle" /\ getter.key = key
    THEN [getter EXCEPT !.allowed = IF @ = AnyValue \/ ~HasJSONText(v) THEN AnyValue
                                    ELSE @ \cup {RoundTrip(v)},
                        !.overlap = TRUE]
    ELSE getter

\* a get(key) in flight whose key is cleared, or whose entry comes of age
Unpromised(keys) ==
  IF getter.pc # "idle" /\ getter.key \in keys
    THEN [getter EXCEPT !.allowed = AnyValue]
    ELSE getter

\* set(key, value) up to the await of fs.mkdir
SetCall(key, v) ==
  /\ setter.pc = "idle"
  /\ setter' = [pc |-> "mkdir", key |-> key, val |-> v]
  /\ everSet' = everSet \cup {key}
  /\ lastSet' = [lastSet EXCEPT ![key] = NoSet]
  /\ getter' = MeetsSet(key, v)
  /\ UNCHANGED <<cfiles, clearing, getRet, now>>

\* set(key, value) called directly
SetStart(key, v) ==
  /\ SetCall(key, v)
  /\ UNCHANGED outsideQc

\* fs.writeFile(cachePath, JSON.stringify(value)): a TypeError for undefined,
\* else the file is opened and truncated
SetOpen ==
  /\ setter.pc = "mkdir"
  /\ IF HasJSONText(setter.val)
       THEN /\ cfiles' = [cfiles EXCEPT ![setter.key] = [content |-> <<>>, mtime |-> now]]
            /\ setter' = [setter EXCEPT !.pc = "write"]
       ELSE /\ setter' = IdleCall
            /\ UNCHANGED cfiles
  /\ UNCHANGED <<getter, clearing, lastSet, everSet, getRet, now>>
  /\ UNCHANGED outsideQc

\* the text is written and set() returns
SetWrite ==
  /\ setter.pc = "write"
  /\ cfiles' = [cfiles EXCEPT ![setter.key] = [content |-> JSONTextOf(setter.val), mtime |-> now]]
  /\ lastSet' = [lastSet EXCEPT ![setter.key] = [val |-> setter.val, at |-> now]]
  /\ setter' = IdleCall
  /\ UNCHANGED <<getter, clearing, everSet, getRet, now>>
  /\ UNCHANGED outsideQc

\* clear(key): fs.unlink(cachePath)
CacheClear(key) ==
  /\ cfiles[key] # NoEntry
  /\ cfiles' = [cfiles EXCEPT ![key] = NoEntry]
  /\ lastSet' = [lastSet EXCEPT ![key] = NoSet]
  /\ getter' = Unpromised({key})
  /\ UNCHANGED <<setter, clearing, everSet, getRet, now>>
  /\ UNCHANGED outsideQc

\* clearAll(): fs.readdir(this.cacheDir)
CacheClearAll ==
  /\ clearing = {}
  /\ {k \in CacheKeys : cfiles[k] # NoEntry} # {}
  /\ clearing' = {k \in CacheKeys : cfiles[k] # NoEntry}
  /\ lastSet' = [k \in CacheKeys |-> IF cfiles[k] # NoEntry THEN NoSet ELSE lastSet[k]]
  /\ getter' = Unpromised({k \in CacheKeys : cfiles[k] # NoEntry})
  /\ UNCHANGED <<cfiles, setter, everSet, getRet, now>>
  /\ UNCHANGED outsideQc

\* clearAll(): fs.unlink of the next listed file
CacheClearNext(key) ==
  /\ key \in clearing
  /\ clearing' = clearing \ {key}
  /\ cfiles' = [cfiles EXCEPT ![key] = NoEntry]
  /\ lastSet' = [lastSet EXCEPT ![key] = NoSet]
  /\ getter' = Unpromised({key})
  /\ UNCHANGED <<setter, everSet, getRet, now>>
  /\ UNCHANGED outsideQc

\* time passes; a promise that rests on an entry now older than ttl lapses
QcTick ==
  /\ Tick
  /\ getter' = Unpromised({k \in CacheKeys : lastSet[k] = NoSet \/ now' - lastSet[k].at > MaxTtl})
  /\ UNCHANGED <<cfiles, setter, clearing, lastSet, everSet, getRet>>
  /\ UNCHANGED outsideQc

QcNext ==
  \/ \E k \in CacheKeys : GetStart(k)
  \/ GetStat
  \/ GetUnlink
  \/ GetRead
  \/ \E k \in CacheKeys, v \in CacheValues : SetStart(k, v)
  \/ SetOpen
  \/ SetWrite
  \/ \E k \in CacheKeys : CacheClear(k)
  \/ CacheClearAll
  \/ \E k \in CacheKeys : CacheClearNext(k)
  \/ QcTick

\* ------------------------------------------------------- cached(ttl)
\* the argument lists the wrapped method is called with
WrapArgs == {"a1", "a2"}

\* the values the original method returns
ResultValues == {Null, Obj("key", 7)}

NoReturnYet == [none |-> TRUE]

\* QueryCache.createKey(propertyKey, args): one key per argument list
CreateKey(args) == IF args = "a1" THEN "q1" ELSE "q2"

WrapInit ==
  /\ wcall = IdleCall
  /\ wret = NoReturnYet

\* the wrapper is called: createKey, cache.get(cacheKey)
WrapCall(args) ==
  /\ wcall.pc = "idle"
  /\ setter.pc = "idle"
  /\ GetCall(CreateKey(args))
  /\ wcall' = [pc |-> "get", args |-> args]
  /\ UNCHANGED wret
  /\ UNCHANGED outsideCache

\* cache.get returned a value other than null: the wrapper returns it
WrapHit ==
  /\ wcall.pc = "get"
  /\ getter.pc = "idle"
  /\ getRet.val # Null
  /\ wret' = [val |-> getRet.val, invoked |-> FALSE, sure |-> getRet.sure]
  /\ wcall' = IdleCall
  /\ UNCHANGED <<qcVars, now>>
  /\ UNCHANGED outsideCache

\* cache.get returned null: the original method is called, returns result,
\* and cache.set(cacheKey, result) starts
WrapMiss(res) ==
  /\ wcall.pc = "get"
  /\ getter.pc = "idle"
  /\ getRet.val = Null
  /\ SetCall(CreateKey(wcall.args), res)
  /\ wcall' = [pc |-> "set", args |-> wcall.args, result |-> res, sure |-> getRet.sure]
  /\ UNCHANGED wret
  /\ UNCHANGED outsideCache

\* cache.set returned: the wrapper returns the result
WrapReturn ==
  /\ wcall.pc = "set"
  /\ setter.pc = "idle"
  /\ wret' = [val |-> wcall.result, invoked |-> TRUE, sure |-> wcall.sure]
  /\ wcall' = IdleCall
  /\ UNCHANGED <<qcVars, now>>
  /\ UNCHANGED outsideCache

WrapNext ==
  \/ \E a \in WrapArgs : WrapCall(a)
  \/ WrapHit
  \/ \E r \in ResultValues : WrapMiss(r)
  \/ WrapReturn
  \/ GetStat
  \/ GetUnlink
  \/ GetRead
  \/ SetOpen
  \/ SetWrite
  \/ QcTick

\* --------------------------------------------------------- PendoMCPClient
MaxSpawns == 2
MaxCallers == 2

McCallers == 1..MaxCallers
TransportIds == 1..MaxSpawns
NoTransport == 0

McInit ==
  /\ mcClient = NoTransport
  /\ mcConnected = FALSE
  /\ transports = <<>>
  /\ mcPc = [c \in McCallers |-> "idle"]
  /\ mcOwn = [c \in McCallers |-> NoTransport]

\* the transports created and not closed
OpenTransports == {t \in DOMAIN transports : transports[t] = "open"}

\* callTool() / listTools() with this.connected and this.client set: the
\* request goes out on this.client
McCallConnected(c) ==
  /\ mcPc[c] = "idle"
  /\ mcConnected /\ mcClient # NoTransport
  /\ mcPc' = [mcPc EXCEPT ![c] = "calling"]
  /\ UNCHANGED <<mcClient, mcConnected, transports, mcOwn>>
  /\ UNCHANGED outsideMc

\* callTool() / listTools() otherwise: connect() finds this.connected false,
\* creates a transport and a client, and awaits client.connect(transport)
McCallConnects(c) ==
  /\ mcPc[c] = "idle"
  /\ ~(mcConnected /\ mcClient # NoTransport)
  /\ ~mcConnected
  /\ Len(transports) < MaxSpawns
  /\ transports' = Append(transports, "open")
  /\ mcClient' = Len(transports) + 1
  /\ mcOwn' = [mcOwn EXCEPT ![c] = Len(transports) + 1]
  /\ mcPc' = [mcPc EXCEPT ![c] = "connecting"]
  /\ UNCHANGED mcConnected
  /\ UNCHANGED outsideMc

\* client.connect(transport) resolved: this.connected = true, and the request
\* goes out on this.client; a null this.client throws
McConnectDone(c) ==
  /\ mcPc[c] = "connecting"
  /\ transports[mcOwn[c]] = "open"
  /\ mcConnected' = TRUE
  /\ mcPc' = [mcPc EXCEPT ![c] = IF mcClient = NoTransport THEN "idle" ELSE "calling"]
  /\ UNCHANGED <<mcClient, transports, mcOwn>>
  /\ UNCHANGED outsideMc

\* client.connect(transport) rejected because the transport was closed
McConnectFail(c) ==
  /\ mcPc[c] = "connecting"
  /\ transports[mcOwn[c]] = "closed"
  /\ mcPc' = [mcPc EXCEPT ![c] = "idle"]
  /\ UNCHANGED <<mcClient, mcConnected, transports, mcOwn>>
  /\ UNCHANGED outsideMc

\* the request was answered, or failed: the call returns or throws
McCallDone(c) ==
  /\ mcPc[c] = "calling"
  /\ mcPc' = [mcPc EXCEPT ![c] = "idle"]
  /\ UNCHANGED <<mcClient, mcConnected, transports, mcOwn>>
  /\ UNCHANGED outsideMc

\* disconnect() with this.client set: await this.client.close()
McDisconnect(c) ==
  /\ mcPc[c] = "idle"
  /\ mcClient # NoTransport
  /\ transports' = [transports EXCEPT ![mcClient] = "closed"]
  /\ mcPc' = [mcPc EXCEPT ![c] = "closing"]
  /\ UNCHANGED <<mcClient, mcConnected, mcOwn>>
  /\ UNCHANGED outsideMc

\* close() resolved: this.client = null, this.transport = null,
\* this.connected = false
McDisconnectDone(c) ==
  /\ mcPc[c] = "closing"
  /\ mcClient' = NoTransport
  /\ mcConnected' = FALSE
  /\ mcPc' = [mcPc EXCEPT ![c] = "idle"]
  /\ UNCHANGED <<transports, mcOwn>>
  /\ UNCHANGED outsideMc

McNext ==
  \/ \E c \in McCallers : McCallConnected(c)
  \/ \E c \in McCallers : McCallConnects(c)
  \/ \E c \in McCallers : McConnectDone(c)
  \/ \E c \in McCallers : McConnectFail(c)
  \/ \E c \in McCallers : McCallDone(c)
  \/ \E c \in McCallers : McDisconnect(c)
  \/ \E c \in McCallers : McDisconnectDone(c)

\* ----------------------------------------------------------- specification
Next ==
  \/ \E o \in OptionsArgs : Execute(o)
  \/ \E f \in FileNames : WriteFileOk(f)
  \/ WriteFileFail
  \/ \E c \in Channels, v \in LogValues : WorkerLog(c, v)
  \/ \E d \in MemDeltas : WorkerFinish(d)
  \/ WorkerReturn
  \/ \E v \in ThrownValues : WorkerThrow(v)
  \/ \E c \in ExitCodes : WorkerProcessExit(c)
  \/ WorkerHang
  \/ \E v \in ThrownValues : WorkerCrash(v)
  \/ WorkerLoadError
  \/ WorkerNaturalExit
  \/ OnTimeout
  \/ OnMessage
  \/ OnError
  \/ OnExit
  \/ UnlinkTemp
  \/ ReturnResult
  \/ CatchRejected
  \/ SimpleExecute
  \/ SimpleSyntaxError
  \/ \E c \in Channels, v \in LogValues : SimpleLog(c, v)
  \/ \E h \in {"finish", "return"} : SimpleFinish(h)
  \/ \E v \in ThrownValues : SimpleThrow(v)

Init == ExecInit /\ ParInit /\ SrvInit /\ ClockInit /\ RlInit /\ QcInit /\ WrapInit /\ McInit

Spec == Init /\ [][Next]_vars

\* the sequential engine with fragments that use memory and files
ResNext ==
  \/ Next
  \/ \E n \in HeapUses : WorkerAllocate(n)
  \/ \E a \in FileAccesses : WorkerFileAccess(a)

ResSpec == Init /\ [][ResNext]_vars

\* requests to the execute_pendo_code tool, one at a time
SrvSpec == Init /\ [][SrvNext]_vars

\* calls of one RateLimiter as time passes
RlSpec == Init /\ [][RlNext]_vars

\* calls of one QueryCache, interleaved at their awaits, as time passes
QcSpec == Init /\ [][QcNext]_vars

\* calls of one method wrapped by cached(ttl), one at a time
WrapSpec == Init /\ [][WrapNext]_vars

\* concurrent callers of the one PendoMCPClient
McSpec == Init /\ [][McNext]_vars

\* several execute() calls in flight at once
ParSpec == Init /\ [][ParNext]_vars

\* the event loop runs every handler and continuation that is ready, and the
\* worker thread keeps running
FairSpec == Spec /\ WF_vars(Next)

TypeOK ==
  /\ phase \in {"Idle", "Staging", "Dispatched", "Cleanup", "Reported", "Threw"}
  /\ tier \in {"none", "worker", "simple"}
  /\ disk \subseteq FileNames
  /\ worker \in {"none", "running", "hung", "finished", "exited", "terminated"}
  /\ timer \in {"unset", "armed", "cleared", "fired"}
  /\ Len(emitted) <= MaxLogs
  /\ calls \in 0..MaxCalls


\* ------------------------------------------------------------------ claims
\* the lines the fragment emitted, as the wrapped program renders them
EmittedLines == [i \in 1..Len(emitted) |-> WrapperLine(emitted[i].chan, emitted[i].val)]

\* the textual renderings of the logged values v1..vn
Renderings == [i \in 1..Len(emitted) |-> RenderArg(emitted[i].val)]

OnlyConsoleLog == \A i \in 1..Len(emitted) : emitted[i].chan = "log"

\* success=true implies no error, success=false implies a non-empty string
WellFormed(r) ==
  /\ r.success => r.error.t = "undefined"
  /\ ~r.success => (r.error.t = "string" /\ r.error.s # <<>>)

\* C1: after CodeExecutor.execute() has returned, whatever the outcome, the
\* temporary file written for the call is no longer on disk
C1_TempFileRemoved ==
  (tier = "worker" /\ phase = "Reported") => tempFile \notin disk

\* C2: a worker that ends by itself without a report (process.exit with any
\* code) leads to a returned, well-formed failure result
C2_AbruptEndReported ==
  (tier = "worker" /\ phase = "Dispatched" /\ ending = "exit" /\ Truthy(opts.timeout))
    ~> (phase = "Reported" /\ ~result.success /\ WellFormed(result))

\* C3: when the timer fires the worker is terminated and the call is settled
\* as a timeout; the returned result is a failure whose error text contains
\* 'timeout' and the configured timeout value
C3_TimeoutReported ==
  (tier = "worker" /\ timer = "fired") =>
    /\ worker \in {"terminated", "exited"}
    /\ ending = "hang" => worker = "terminated"
    /\ settle.st = "rejected"
    /\ phase # "Threw"
    /\ phase = "Reported" =>
         /\ ~result.success
         /\ result.error.t = "string"
         /\ Contains(result.error.s, <<"timeout">>)
         /\ Contains(result.error.s, <<ToString(opts.timeout.n)>>)

C3_Witness ==
  /\ tier = "worker" /\ phase = "Reported" /\ timer = "fired" /\ ending = "hang"
  /\ opts.timeout = Num(200)


\* the first event the host's handlers ran for
FirstHandled == handled[1]

\* the settlement each kind of event produces
SettledBy(kind) ==
  CASE kind = "message" -> settle.st = "resolved"
    [] kind = "timeout" -> settle = Rejected(TimeoutError(opts.timeout.n))
    [] kind = "error" -> settle.st = "rejected"
                           /\ settle.reason \in ThrownValues \cup {NullReadError, SyntaxErrorObj}
    [] kind = "exit" -> settle.st = "rejected" /\ settle.reason \in {ExitError(c) : c \in ExitCodes}
    [] kind = "exit0" -> settle.st = "pending"

\* C4: the first of {report, worker error, exit failure, timeout} settles the
\* call; no later event changes the settlement, and a returned result is
\* never replaced by a second one
C4_FirstEventWins ==
  /\ [](handled # <<>> => SettledBy(FirstHandled))
  /\ [][(settle.st # "pending" /\ calls' = calls) => settle' = settle]_vars
  /\ [][(phase = "Reported" /\ calls' = calls) => (phase' = "Reported" /\ result' = result)]_vars
  /\ []((tier = "worker" /\ phase = "Reported" /\ settle.st # "pending") =>
         result = IF settle.st = "resolved"
                    THEN NormalizeReport(settle.val, logs)
                    ELSE CatchResult(settle.reason, logs))

C4_Witness ==
  /\ Len(handled) >= 2
  /\ handled[1] = "timeout"
  /\ handled[2] = "message"
  /\ phase = "Reported"

\* C5: a call that ends in a timeout or a launcher-level failure returns every
\* line the fragment emitted before that point, in emission order
C5_PartialLogsKept ==
  (tier = "worker" /\ phase = "Reported" /\ settle.st = "rejected") => result.logs = EmittedLines

\* C6: every returned ExecutionResult has success=true without error, or
\* success=false with a non-empty error string
C6_ResultWellFormed ==
  phase = "Reported" => WellFormed(result)

\* C7: CodeExecutor.execute() never throws or rejects
C7_ExecuteNeverThrows ==
  ~(tier = "worker" /\ phase = "Threw")

\* C8: a fragment that does not throw and finishes before the deadline, having
\* called console.log with v1..vn, gets success=true, no error and the
\* renderings of v1..vn as logs, in both tiers
C8_LogsOfFinishedFragment ==
  (/\ phase = "Dispatched" /\ ending \in {"finish", "return"} /\ OnlyConsoleLog
   /\ tier = "worker" => (Truthy(opts.timeout) /\ timer # "fired"))
    ~> \/ timer = "fired"
       \/ /\ phase = "Reported"
          /\ result.success
          /\ result.error.t = "undefined"
          /\ result.logs = Renderings

\* C9 as stated: a fragment that throws Error(X), inside the wrapper's try or
\* from a callback it scheduled, gets success=false and an
\* error string that contains X, in both tiers
C9_ThrownMessageInError ==
  (phase = "Reported" /\ ending \in {"throw", "crash"} /\ thrown.t = "error") =>
    /\ ~result.success
    /\ result.error.t = "string"
    /\ Contains(result.error.s, thrown.message)

\* C9 amended: a fragment that throws Error(X) gets success=false; the error
\* string contains X unless the timer fired before the report was received
C9_ThrownMessageUnlessTimeout ==
  (phase = "Reported" /\ ending \in {"throw", "crash"} /\ thrown.t = "error") =>
    /\ ~result.success
    /\ result.error.t = "string"
    /\ timer # "fired" => Contains(result.error.s, thrown.message)

C9_Witness ==
  /\ phase = "Reported" /\ tier = "worker" /\ ending = "throw"
  /\ thrown = ErrorObj("Error", <<"boom">>)
  /\ timer = "cleared"
  /\ Contains(result.error.s, <<"boom">>)

\* C10: a fragment that throws after emitting l1..lk has its failure reported
\* through the message channel and gets success=false with logs = [l1..lk]
C10_LogsOfThrowingFragment ==
  (phase \in {"Reported", "Threw"} /\ ending = "throw") =>
    /\ phase = "Reported"
    /\ tier = "worker" => settle.st = "resolved"
    /\ ~result.success
    /\ result.logs = IF tier = "worker" THEN EmittedLines ELSE Renderings


\* the report the wrapped program posted, given how the fragment ended
IsPostedReport(m) ==
  CASE ending = "finish" -> \E d \in MemDeltas : m = SuccessReport(wlogs, d)
    [] ending = "throw" -> m = FailureReport(wlogs, thrown)
    [] OTHER -> FALSE

\* the value the worker's 'error' event carried
EventError == IF ending = "throw" THEN NullReadError ELSE thrown

C12_CallsIndependent ==
  /\ \A c, d \in ParCalls :
       (c # d /\ pfile[c] # NoFile /\ pfile[d] # NoFile) => pfile[c] # pfile[d]
  /\ \A c \in ParCalls :
       /\ pcode[c] \in {NoCode, c}
       /\ \A i \in 1..Len(pwlogs[c]) : pwlogs[c][i].by = c
       /\ pphase[c] = "Reported" =>
            \A i \in 1..Len(presult[c].logs) : presult[c].logs[i].by = c

C12_Witness ==
  /\ pphase[1] = "Reported" /\ presult[1].logs # <<>>
  /\ pphase[2] = "Dispatched" /\ pwlogs[2] # <<>>
  /\ pwlogs[2][1].line = presult[1].logs[1].line


\* the worker thread is alive (its body may be over, its event loop is not)
WorkerAlive == worker \in {"running", "hung", "finished"}

\* C13: when CodeExecutor.execute() has returned the worker of the call is no
\* longer running, whichever path settled it; the timeout callback and the
\* message handler stop it at once, in the same step
C13_WorkerStoppedOnReturn ==
  /\ (tier = "worker" /\ phase = "Reported") => ~WorkerAlive
  /\ (tier = "worker" /\ timer = "fired") => ~WorkerAlive
  /\ (tier = "worker" /\ \E i \in 1..Len(handled) : handled[i] = "message") => ~WorkerAlive

C13_Witness ==
  /\ tier = "worker" /\ phase = "Reported"
  /\ handled # <<>> /\ handled[1] = "message"
  /\ worker = "terminated"
  /\ result.success


\* C14: a call creates its worker once, at dispatch, and no other worker; a
\* new call starts without a worker; once the result is returned the call
\* stays Reported and nothing is dispatched again without a new execute()
C14_OneWorkerPerCall ==
  /\ []((tier = "worker" /\ phase \in {"Dispatched", "Cleanup"}) => worker # "none")
  /\ [][(worker' = "running" /\ worker # "running") =>
          (worker = "none" /\ phase = "Staging" /\ phase' = "Dispatched")]_vars
  /\ [][calls' # calls => (calls' = calls + 1 /\ worker' = "none")]_vars
  /\ [][phase' = "Staging" => calls' = calls + 1]_vars
  /\ [][(phase = "Reported" /\ calls' = calls) => (phase' = "Reported" /\ ~WorkerAlive')]_vars

C14_Witness ==
  /\ calls = 2 /\ tier = "worker" /\ phase = "Reported"
  /\ worker = "terminated"
  /\ Cardinality(disk) = 1


ReportCameFirst == tier = "worker" /\ handled # <<>> /\ handled[1] = "message"

\* C15: when the worker's report is handled before the timer fires, the timer
\* is cancelled and never fires, and the returned result has the success flag,
\* the error and the logs of the report
C15_ReportCancelsTimer ==
  /\ ReportCameFirst =>
       /\ timer \in {"cleared", "unset"}
       /\ \A i \in 1..Len(handled) : handled[i] # "timeout"
  /\ (ReportCameFirst /\ phase = "Reported") =>
       /\ IsPostedReport(settle.val)
       /\ result.success = settle.val.success
       /\ result.error = settle.val.error
       /\ result.logs = settle.val.logs

C15_Witness ==
  /\ ReportCameFirst /\ phase = "Reported"
  /\ timer = "cleared"
  /\ worker = "exited"
  /\ ~result.success
  /\ Len(result.logs) = MaxLogs


\* C16: every worker that is dispatched runs under an armed timer, whose
\* deadline is the caller's timeout or else the default of 30000 ms, whatever
\* options argument the caller passed
C16_DeadlineArmed ==
  (tier = "worker" /\ phase = "Dispatched" /\ handled = <<>>) =>
    /\ timer = "armed"
    /\ opts.timeout.t = "number"
    /\ opts.timeout.n > 0


\* the tier did not measure the fragment's memory: SimpleSandbox, and the
\* CodeExecutor results that come out of the catch block
Unmeasured == tier = "simple" \/ settle.st # "resolved"

\* C17: in every returned result stats.memoryUsed is at least 0, and it is 0
\* when the tier did not measure it
C17_StatsNonNegative ==
  phase = "Reported" =>
    /\ result.stats.memoryUsed >= 0
    /\ Unmeasured => result.stats.memoryUsed = 0


\* C18: a fragment whose memory use exceeds maxMemory never completes with
\* success=true
C18_MemoryBounded ==
  ~(tier = "worker" /\ phase = "Reported" /\ heapOver /\ result.success)

\* the README's file system restrictions over the allowed paths
AccessAllowed(a) ==
  /\ a.root \in opts.allowedPaths
  /\ a.mode = "read" => a.root \in {"./servers", "./skills"}
  /\ a.mode = "write" => a.root = "./cache"

\* C19: no file access of the fragment outside the allowed paths succeeds
C19_ConfinedToAllowedPaths ==
  tier = "worker" => \A a \in accessed : AccessAllowed(a)

\* the fragment's own code failed: it threw, a callback it scheduled threw, or
\* it does not parse
UserCodeFault == ending \in {"throw", "crash", "syntax"}

\* the call ended in the catch block of execute (lines 83-93), the path of
\* staging failures and of workers that stop without a report
LauncherFailurePath == settle.st # "resolved"

\* C20: a fault of the fragment's own code, when no timeout came before it, is
\* never reported through the launcher-failure path
C20_UserFaultNotLauncherFailure ==
  (/\ tier = "worker"
   /\ phase \in {"Reported", "Threw"}
   /\ UserCodeFault
   /\ handled # <<>> /\ handled[1] # "timeout") => ~LauncherFailurePath

\* the keys of the object whose JSON text a success response carries
CarriedKeys == DOMAIN response.text.json

\* C21: the response is error-flagged exactly when code is missing or empty or
\* the result has success=false, and a success response carries the result's
\* logs, stats and output unchanged
C21_HandlerResponse ==
  hstate = "Responded" =>
    IF ~Truthy(hargs.code)
      THEN response.isError
      ELSE /\ response.isError <=> ~result.success
           /\ result.success =>
                /\ {"logs", "stats", "output"} \subseteq CarriedKeys
                /\ response.text.json.logs = result.logs
                /\ response.text.json.stats = result.stats
                /\ response.text.json.output = result.output

\* the lines the fragment emitted, as captureLog renders them
CapturedLines == [i \in 1..Len(emitted) |-> CaptureLine(emitted[i].chan, emitted[i].val)]

\* C22: SimpleSandbox.execute() never throws; a fragment that throws, rejects
\* or does not compile yields success=false with a defined error, and the
\* result holds every line the fragment logged
C22_SimpleNeverThrows ==
  tier = "simple" =>
    /\ phase # "Threw"
    /\ (phase = "Reported" /\ ending \in {"throw", "syntax"}) =>
         (~result.success /\ result.error # Undef)
    /\ phase = "Reported" => result.logs = CapturedLines

\* the number of timestamps of hist in the window (t - windowMs, t]
GrantedIn(hist, t) ==
  Cardinality({i \in 1..Len(hist) : t - rlWindow < hist[i] /\ hist[i] <= t})

\* C23: for every key and every instant t, at most limit calls of checkLimit
\* returned true with a timestamp in (t - windowMs, t], as long as the key was
\* not cleared in between
C23_SlidingWindowBound ==
  Constructed => \A k \in Keys, t \in 0..MaxTime : GrantedIn(granted[k], t) <= rlLimit

\* a key used up its limit, was denied, and was granted again after the window
\* moved on
C23_Witness ==
  /\ Constructed
  /\ \E k \in Keys :
       /\ Len(granted[k]) > rlLimit
       /\ GrantedIn(granted[k], now) = rlLimit
       /\ rlLast = [op |-> "checkLimit", key |-> k, ret |-> FALSE]

\* the step is a call of checkLimit(k)
IsCheckLimit(k) ==
  /\ rlLast'.op = "checkLimit"
  /\ rlLast'.key = k
  /\ <<rlLast, granted>>' # <<rlLast, granted>>

\* the number of timestamps ts of hist with now - ts < windowMs
RecentIn(hist) == Cardinality({i \in 1..Len(hist) : now - hist[i] < rlWindow})

\* checkLimit(k) answers by the count of the calls of hist, and records a
\* call it allows with timestamp now
AnswersBy(hist, k) ==
  /\ rlLast'.ret <=> RecentIn(hist) < rlLimit
  /\ rlLast'.ret =>
       /\ k \in DOMAIN requests'
       /\ requests'[k] # <<>>
       /\ requests'[k][Len(requests'[k])] = now

\* C24 as stated: checkLimit(key) returns true iff fewer than limit of the
\* previously allowed requests of the key are within the window
C24_CheckLimitExact ==
  [][\A k \in Keys : IsCheckLimit(k) => AnswersBy(erased[k] \o granted[k], k)]_vars

\* C24 amended: the same, counting the requests allowed since the key was last
\* cleared by clear(key) or clearAll()
C24_CheckLimitExactSinceClear ==
  [][\A k \in Keys : IsCheckLimit(k) => AnswersBy(granted[k], k)]_vars

\* a key was cleared while it had requests in the window and was then allowed
\* a request
C24_Witness ==
  /\ Constructed
  /\ \E k \in Keys :
       /\ rlLast = [op |-> "checkLimit", key |-> k, ret |-> TRUE]
       /\ erased[k] # <<>>

\* C25: a get(key) that meets no set returns the value of the last completed
\* set(key, v), JSON round-tripped, while the entry is no older than ttl and was
\* not cleared; a get for a key never set returns null
C25_GetReturnsLastSet ==
  getRet # NoGetYet =>
    /\ ~getRet.overlap => getRet.asPromised
    /\ ~getRet.set => getRet.val = Null

\* the step is the unlink of get(), and the file is there
GetDeletesEntry == getter.pc = "unlink" /\ getter'.pc = "idle" /\ cfiles[getter.key] # NoEntry

\* C26: get() deletes only an entry whose age exceeds ttl, and returns null
\* when it does; an entry with age <= ttl is never treated as expired
C26_OnlyExpiredDeleted ==
  [][GetDeletesEntry =>
       /\ now - cfiles[getter.key].mtime > MaxTtl
       /\ getRet'.val = Null]_vars

\* C30: a get(key) that runs concurrently with set(key, v2) on an entry holding
\* an unexpired v1 returns v1 or v2, never null and never a partial value
C30_ConcurrentGetSeesOldOrNew ==
  (getRet # NoGetYet /\ getRet.overlap) => getRet.asPromised

\* C27: a call of the wrapped method whose arguments were used by a completed
\* call within ttl returns without invoking the original method
C27_CachedCallSkipsOriginal ==
  (wret # NoReturnYet /\ wret.sure) => ~wret.invoked

\* C28: at any time at most one transport has been created and not closed
C28_SingleConnection ==
  Cardinality(OpenTransports) <= 1

\* C29: a fragment that runs to its end within the deadline gets success=true
\* and the same logs from both tiers: the logs of the result are the lines as
\* the worker tier renders them and as the in-process tier renders them
C29_TiersAgree ==
  (phase = "Reported" /\ ending = "finish" /\ (handled # <<>> => handled[1] # "timeout")) =>
    /\ result.success
    /\ result.logs = EmittedLines
    /\ result.logs = CapturedLines

\* the state of the limiter: limit, window and the map of requests
Limiter == <<rlLimit, rlWindow, requests>>

\* the step is a call of getRemaining or getResetTime
IsQuery ==
  /\ rlLast'.op \in {"getRemaining", "getResetTime"}
  /\ <<rlLast, requests>>' # <<rlLast, requests>>

\* C31: checkLimit(key) changes at most the record of key, and nothing when it
\* returns false; getRemaining and getResetTime change no limiter state
C31_OnlyGrantedChecksWrite ==
  [][/\ \A k \in Keys : IsCheckLimit(k) =>
          /\ rlLimit' = rlLimit /\ rlWindow' = rlWindow
          /\ DOMAIN requests' \subseteq DOMAIN requests \cup {k}
          /\ \A j \in DOMAIN requests \ {k} : j \in DOMAIN requests' /\ requests'[j] = requests[j]
          /\ ~rlLast'.ret => Limiter' = Limiter
     /\ IsQuery => Limiter' = Limiter]_vars

\* a key was denied while another key holds recorded requests
C31_Witness ==
  /\ Constructed
  /\ \E k \in Keys, j \in Keys :
       /\ j # k
       /\ rlLast = [op |-> "checkLimit", key |-> k, ret |-> FALSE]
       /\ j \in DOMAIN requests /\ requests[j] # <<>>
       /\ k \in DOMAIN requests /\ requests[k] # <<>>

\* the step is a call of getResetTime(k)
IsGetResetTime(k) ==
  /\ rlLast'.op = "getResetTime"
  /\ rlLast'.key = k
  /\ rlLast' # rlLast

\* the recorded timestamps of hist inside the window at time t
InsideAt(hist, t) == {hist[i] : i \in {j \in 1..Len(hist) : t - hist[j] < rlWindow}}

\* r is 0 when hist has nothing inside the window, else the time until the
\* oldest timestamp inside the window leaves it
TimeUntilOldestLeaves(hist, r) ==
  IF InsideAt(hist, now) = {}
    THEN r = 0
    ELSE /\ r \in 1..rlWindow
         /\ \E o \in InsideAt(hist, now) :
              /\ \A x \in InsideAt(hist, now) : o <= x
              /\ o \in InsideAt(hist, now + r - 1)
              /\ o \notin InsideAt(hist, now + r)

\* the last denial was of k, and the reset time it announced ends now
RetryDue(k) == retryAt # NoRetry /\ retryAt.key = k /\ retryAt.at = now

\* the last denial was of k, and no request of k was allowed since
FirstSinceDenial(k) == retryAt # NoRetry /\ retryAt.key = k /\ retryAt.first

IsGetRemaining(k) ==
  /\ rlLast'.op = "getRemaining"
  /\ rlLast'.key = k
  /\ rlLast' # rlLast

\* checkLimit(k) returns true iff getRemaining(k) is positive at that instant,
\* and lowers it by exactly 1 when it returns true
ChecksAgainstRemaining(k) ==
  /\ rlLast'.ret <=> Remaining(k) > 0
  /\ rlLast'.ret => Remaining(k)' = Remaining(k) - 1

\* C33 as stated: getRemaining(key) is max(0, limit - the number of allowed
\* requests of key still inside the window)
C33_RemainingExact ==
  [][\A k \in Keys :
       IsGetRemaining(k) => rlLast'.ret = MaxZero(rlLimit - RecentIn(erased[k] \o granted[k]))]_vars

\* C33 amended: the same, counting the requests allowed since the key was last
\* cleared; getRemaining(key) > 0 iff checkLimit(key) at that instant returns
\* true, and an allowed checkLimit lowers getRemaining(key) by exactly 1
C33_RemainingExactSinceClear ==
  /\ [][\A k \in Keys :
          IsGetRemaining(k) => rlLast'.ret = MaxZero(rlLimit - RecentIn(granted[k]))]_vars
  /\ [][\A k \in Keys : IsCheckLimit(k) => ChecksAgainstRemaining(k)]_vars

\* getRemaining found a key that used up its limit, the key having been
\* cleared before
C33_Witness ==
  /\ Constructed
  /\ \E k \in Keys :
       /\ rlLast = [op |-> "getRemaining", key |-> k, ret |-> 0]
       /\ RecentIn(granted[k]) = rlLimit
       /\ clears > 0

\* the step is a call of clear(k)
IsClear(k) ==
  /\ rlLast'.op = "clear"
  /\ rlLast'.key = k
  /\ clears' # clears

\* the step is a call of clearAll()
IsClearAll == rlLast'.op = "clearAll" /\ clears' # clears

\* after the step k has no recorded request: getRemaining(k) is limit and
\* getResetTime(k) is 0
Forgotten(k) ==
  /\ TimestampsOf(k)' = <<>>
  /\ Remaining(k)' = rlLimit
  /\ ResetTime(k)' = 0

\* C34: clear(key) removes the recorded requests of key and of no other key,
\* so that getRemaining(key) = limit and getResetTime(key) = 0 afterwards;
\* clearAll() does so for every key
C34_ClearForgetsKeyOnly ==
  /\ [][\A k \in Keys : IsClear(k) =>
          /\ Forgotten(k)
          /\ rlLimit' = rlLimit /\ rlWindow' = rlWindow
          /\ \A j \in Keys \ {k} :
               /\ j \in DOMAIN requests' <=> j \in DOMAIN requests
               /\ TimestampsOf(j)' = TimestampsOf(j)]_vars
  /\ [][IsClearAll =>
          /\ \A k \in Keys : Forgotten(k)
          /\ rlLimit' = rlLimit /\ rlWindow' = rlWindow]_vars

\* a key with requests inside the window was cleared while another key keeps
\* its recorded requests
C34_Witness ==
  /\ Constructed
  /\ \E k \in Keys, j \in Keys :
       /\ j # k
       /\ rlLast = [op |-> "clear", key |-> k]
       /\ erased[k] # <<>>
       /\ k \notin DOMAIN requests
       /\ j \in DOMAIN requests /\ requests[j] # <<>>

====
